---- MODULE Spec2Model ----
(***************************************************************************)
(* A model of memestra (src/memestra/memestra.py): the decorator matcher   *)
(* (collect_deprecated), the use-site propagator (get_deprecated_users),   *)
(* the import walker (visit_Import, visit_ImportFrom,                      *)
(* load_deprecated_from_module) and the scan driver (memestra).            *)
(*                                                                         *)
(* Representation.  A parsed module is the sequence of its top-level       *)
(* statements; a tree node is <<i, role, p>>: statement i, the node's role *)
(* in the statement's shape, and its position in an attribute chain.       *)
(* An identifier is a string; a dotted name ("a.b", as in alias.name and   *)
(* ImportFrom.module) is the sequence of its tokens, <<"a", ".", "b">>.    *)
(* The def-use chains and the ancestor lookup are what beniget computes    *)
(* for these shapes.                                                       *)
(***************************************************************************)
EXTENDS Integers, Sequences, FiniteSets, TLC

VARIABLES
    decorator,    \* ImportResolver.decorator: tuple of identifiers
    \* ---- one resolver on one module (SpecUnit)
    upc,          \* "parsed" -> "collected" -> "visited" -> "users"
    ubody,        \* the module under analysis
    uloaded,      \* what load_deprecated_from_module returns for "lib"
    udeprecated,  \* ImportResolver.deprecated
    uusers,       \* result of get_deprecated_users
    \* ---- scans over a set of files with a persistent cache (Spec)
    files,        \* module path -> label of the file it holds
    top,          \* path of the scanned file (file_path)
    recursive,    \* ImportResolver.recursive
    run,          \* number of scans started
    pc,           \* "idle" | "running" | "done" | "error"
    stack,        \* active resolver.visit() calls, innermost last
    visited,      \* ImportResolver.visited (shared by all resolvers of a scan)
    cache,        \* the cache store: key -> entry | NoEntry
    warnings,     \* warnings.warn calls of the current scan
    calls,        \* completed load_deprecated_from_module calls, current scan
    results       \* outcome of every finished scan

unitVars == <<upc, ubody, uloaded, udeprecated, uusers>>
scanVars == <<files, top, recursive, run, pc, stack, visited, cache,
              warnings, calls, results>>
vars == <<decorator, unitVars, scanVars>>

-----------------------------------------------------------------------------
(* Bounds *)

MaxPath == 3      \* longest decorator path drawn
MaxStmts == 3     \* statements after the import in a drawn module
MaxRuns == 2      \* scans in a row
MaxPreset == 1    \* cache entries present before the first scan

-----------------------------------------------------------------------------
(* Strings *)

Dot == "."

\* str.split('.') of a dotted name whose segments are identifiers
Split(s) == SelectSeq(s, LAMBDA t : t # Dot)

RECURSIVE Join(_)
\* '.'.join(tuple)
Join(t) ==
    IF t = <<>> THEN <<>>
    ELSE IF Len(t) = 1 THEN <<t[1]>>
    ELSE <<t[1], Dot>> \o Join(Tail(t))

Last(s) == s[Len(s)]
Front(s) == SubSeq(s, 1, Len(s) - 1)
Range(s) == {s[i] : i \in DOMAIN s}

RECURSIVE Reverse(_)
Reverse(s) == IF s = <<>> THEN <<>> ELSE Append(Reverse(Tail(s)), Head(s))

\* Python slices of a tuple
SliceTo(t, n) == SubSeq(t, 1, IF n < Len(t) THEN n ELSE Len(t))      \* t[:n]
SliceFrom(t, n) == SubSeq(t, n + 1, Len(t))                           \* t[n:]
SliceLast(t) == IF t = <<>> THEN <<>> ELSE <<Last(t)>>                \* t[-1:]
SliceFront(t) == IF t = <<>> THEN <<>> ELSE Front(t)                  \* t[:-1]

-----------------------------------------------------------------------------
(* Statements and trees (what ast.parse, DefUseChains and Ancestors give) *)

NoStmtFields == [mod |-> <<>>, name |-> "", dk |-> "", deco |-> <<>>,
                 inner |-> "", idk |-> "", use |-> <<>>]

\* import m            (m a dotted name)
Imp(m) == [NoStmtFields EXCEPT !.mod = m] @@ [kind |-> "import"]
\* from m import n
From(m, n) == [NoStmtFields EXCEPT !.mod = m, !.name = n] @@ [kind |-> "from"]
\* @deco  <dk> f:  [<idk> inner:]  use()
Def(dk, f, deco, idk, inner, use) ==
    [NoStmtFields EXCEPT !.name = f, !.dk = dk, !.deco = deco,
                         !.idk = idk, !.inner = inner, !.use = use]
    @@ [kind |-> "def"]
\* use()   at module level
Expr(use) == [NoStmtFields EXCEPT !.use = use] @@ [kind |-> "expr"]

Root == <<0, "module", 0>>

UseNodes(b, i) ==
    IF b[i].use = <<>> THEN {}
    ELSE {<<i, "expr", 0>>, <<i, "call", 0>>}
         \cup {<<i, "use", p>> : p \in 1..Len(b[i].use)}

StmtNodes(b, i) ==
    CASE b[i].kind \in {"import", "from"} -> {<<i, "stmt", 0>>, <<i, "alias", 0>>}
      [] b[i].kind = "def" ->
            {<<i, "stmt", 0>>}
            \cup (IF b[i].inner = "" THEN {} ELSE {<<i, "inner", 0>>})
            \cup {<<i, "deco", p>> : p \in 1..Len(b[i].deco)}
            \cup UseNodes(b, i)
      [] OTHER -> UseNodes(b, i)

Nodes(b) == {Root} \cup UNION {StmtNodes(b, i) : i \in DOMAIN b}

NodeKind(b, n) ==
    IF n = Root THEN "Module"
    ELSE LET s == b[n[1]] IN
         CASE n[2] = "stmt" -> (IF s.kind = "import" THEN "Import"
                                ELSE IF s.kind = "from" THEN "ImportFrom"
                                ELSE s.dk)
           [] n[2] = "alias" -> "alias"
           [] n[2] = "inner" -> s.idk
           [] n[2] = "expr" -> "Expr"
           [] n[2] = "call" -> "Call"
           [] OTHER -> IF n[3] = 1 THEN "Name" ELSE "Attribute"

\* _defs = ast.AsyncFunctionDef, ast.ClassDef, ast.FunctionDef
DefKinds == {"AsyncFunctionDef", "ClassDef", "FunctionDef"}
IsDef(b, n) == NodeKind(b, n) \in DefKinds

\* node.name of a definition, node.id of a Name, node.attr of an Attribute
Ident(b, n) ==
    LET s == b[n[1]] IN
    CASE n[2] = "stmt" -> s.name
      [] n[2] = "inner" -> s.inner
      [] n[2] = "deco" -> s.deco[n[3]]
      [] OTHER -> s.use[n[3]]

\* alias.name: the dotted name imported
AliasName(b, n) ==
    IF b[n[1]].kind = "import" THEN b[n[1]].mod ELSE <<b[n[1]].name>>

\* ImportFrom.module / the single alias of an Import
StmtModule(b, i) == b[i].mod

Parent(b, n) ==
    LET i == n[1]
        s == b[i]
    IN CASE n[2] \in {"stmt"} -> Root
         [] n[2] \in {"alias", "inner"} -> <<i, "stmt", 0>>
         [] n[2] = "deco" -> (IF n[3] < Len(s.deco) THEN <<i, "deco", n[3] + 1>>
                              ELSE <<i, "stmt", 0>>)
         [] n[2] = "expr" -> (IF s.kind # "def" THEN Root
                              ELSE IF s.inner = "" THEN <<i, "stmt", 0>>
                              ELSE <<i, "inner", 0>>)
         [] n[2] = "call" -> <<i, "expr", 0>>
         [] OTHER -> (IF n[3] < Len(s.use) THEN <<i, "use", n[3] + 1>>
                      ELSE <<i, "call", 0>>)

RECURSIVE Parents(_, _)
\* beniget.Ancestors.parents(node): the ancestors, root first
Parents(b, n) ==
    IF n = Root THEN <<>>
    ELSE Append(Parents(b, Parent(b, n)), Parent(b, n))

\* the local name a module-level statement binds ("" when none)
BoundName(s) ==
    CASE s.kind = "import" -> s.mod[1]
      [] s.kind = "from" -> s.name
      [] s.kind = "def" -> s.name
      [] OTHER -> ""

BindingNode(b, i) ==
    IF b[i].kind = "def" THEN <<i, "stmt", 0>> ELSE <<i, "alias", 0>>

\* duc.locals[module]: the module-level bindings
Locals(b) == {BindingNode(b, i) : i \in {j \in DOMAIN b : b[j].kind # "expr"}}

\* the Name nodes of the tree
NameNodes(b) == {n \in Nodes(b) : NodeKind(b, n) = "Name"}

\* the statements whose binding a Name node can read: a decorator and a
\* module-level expression see what is bound before them, the body of a
\* function what the module binds
Visible(b, n) ==
    IF \/ n[2] = "deco"
       \/ b[n[1]].kind = "expr"
       \/ (b[n[1]].dk = "ClassDef" /\ b[n[1]].inner = "")
    THEN {j \in DOMAIN b : j < n[1]}
    ELSE DOMAIN b

\* the binding a Name node reads, Root when it is unbound
Binding(b, n) ==
    IF n[2] = "use" /\ b[n[1]].kind = "def" /\ b[n[1]].inner = Ident(b, n)
    THEN <<n[1], "inner", 0>>
    ELSE LET c == {j \in Visible(b, n) : BoundName(b[j]) = Ident(b, n)} IN
         IF c = {} THEN Root
         ELSE BindingNode(b, CHOOSE j \in c : \A k \in c : k <= j)

\* defuse.chains[node].users(), as the set of user nodes
Users(b, d) ==
    CASE d[2] \in {"alias", "stmt", "inner"} ->
            {n \in NameNodes(b) : Binding(b, n) = d}
      [] d[2] = "use" -> {Parent(b, d)}
      [] d[2] = "deco" -> (IF d[3] < Len(b[d[1]].deco) THEN {Parent(b, d)} ELSE {})
      [] OTHER -> {}

-----------------------------------------------------------------------------
(* Decorator matcher *)

RECURSIVE WalkUp(_, _, _)
\* the while loop of the prefix branch; returns <<attrs, parents>> after it
WalkUp(b, attrs, parents) ==
    IF attrs = <<>> \/ parents = <<>> THEN <<attrs, parents>>
    ELSE LET attr == Last(attrs)
             parent == Last(parents)
             popped == Front(parents)
         IN IF NodeKind(b, parent) # "Attribute" THEN <<attrs, popped>>
            ELSE IF Ident(b, parent) # attr THEN <<attrs, popped>>
            ELSE WalkUp(b, Front(attrs), popped)

\* prefix branch: the definitions one alias marks through attribute chains
PrefixMatches(b, dec, dlocal) ==
    LET nbterms == Len(Split(AliasName(b, dlocal)))
        after(user) == WalkUp(b, Reverse(SliceFrom(dec, nbterms)), Parents(b, user))
    IN {Last(after(user)[2]) :
          user \in {u \in Users(b, dlocal) :
                      /\ after(u)[1] = <<>>
                      /\ after(u)[2] # <<>>
                      /\ IsDef(b, Last(after(u)[2]))}}

\* final-segment branch: the definitions one alias marks as a bare name
FinalMatches(b, dec, dlocal) ==
    LET parent == Last(Parents(b, dlocal)) IN
    IF NodeKind(b, parent) # "ImportFrom" THEN {}
    ELSE IF StmtModule(b, parent[1]) # Join(SliceFront(dec)) THEN {}
    ELSE {Last(Parents(b, user)) :
            user \in {u \in Users(b, dlocal) : IsDef(b, Last(Parents(b, u)))}}

\* the if / elif of collect_deprecated's loop body, for one alias
AliasMatches(b, dec, dlocal) ==
    LET original_path == Split(AliasName(b, dlocal))
        nbterms == Len(original_path)
    IN IF original_path = SliceTo(dec, nbterms) THEN PrefixMatches(b, dec, dlocal)
       ELSE IF original_path = SliceLast(dec) THEN FinalMatches(b, dec, dlocal)
       ELSE {}

collect_deprecated(b, dec) ==
    UNION {AliasMatches(b, dec, dlocal) :
             dlocal \in {d \in Locals(b) : NodeKind(b, d) = "alias"}}

-----------------------------------------------------------------------------
(* Use-site propagator *)

\* the function, class and async-function ancestors of a node, root first
DefAncestors(b, n) == SelectSeq(Parents(b, n), LAMBDA a : IsDef(b, a))

UseContextOutermost(b, user) ==
    IF DefAncestors(b, user) # <<>> THEN DefAncestors(b, user)[1] ELSE user

\* the third element of a triple
UseContext(b, user) ==
    IF DefAncestors(b, user) # <<>> THEN Last(DefAncestors(b, user)) ELSE user

\* the `continue` of get_deprecated_users
InsideDeprecated(b, deprecated, user) ==
    \E f \in Range(DefAncestors(b, user)) : f \in deprecated

\* the triples (deprecated_node, user, context), as a set
get_deprecated_users(b, deprecated) ==
    {<<d, u, UseContext(b, u)>> :
        <<d, u>> \in {p \in deprecated \X Nodes(b) :
                        /\ p[2] \in Users(b, p[1])
                        /\ ~InsideDeprecated(b, deprecated, p[2])}}

-----------------------------------------------------------------------------
(* Import walker: what visit_Import / visit_ImportFrom add to self.deprecated
   once load_deprecated_from_module has returned the names `loaded` *)

visit_Import_marks(b, i, loaded) ==
    {Last(Parents(b, u)) :
        u \in {v \in Users(b, <<i, "alias", 0>>) :
                 /\ NodeKind(b, Last(Parents(b, v))) = "Attribute"
                 /\ Ident(b, Last(Parents(b, v))) \in loaded}}

visit_ImportFrom_marks(b, i, loaded) ==
    IF \E deprec \in loaded : AliasName(b, <<i, "alias", 0>>) = <<deprec>>
    THEN Users(b, <<i, "alias", 0>>)
    ELSE {}

RECURSIVE prettyname(_, _)
\* the display name of a node, as a dotted name
prettyname(b, n) ==
    IF IsDef(b, n) THEN <<Ident(b, n)>>
    ELSE IF NodeKind(b, n) = "Name" THEN <<Ident(b, n)>>
    ELSE IF NodeKind(b, n) = "Attribute"
         THEN prettyname(b, <<n[1], n[2], n[3] - 1>>) \o <<Dot, Ident(b, n)>>
    ELSE <<"<repr>">>

-----------------------------------------------------------------------------
(* One resolver on one module: the modules drawn *)

Alphabet == {"a", "b"}

\* the decorator paths: at least (module, attribute)
DecoratorPaths ==
    UNION {[1..n -> Alphabet] : n \in 2..MaxPath}

\* the imports through which a module can reach the decorator `dec`
DecoratorImports(dec) ==
    <<From(<<"other">>, Last(dec))>>
    \o [k \in 1..(Len(dec) - 1) |-> Imp(Join(SubSeq(dec, 1, k)))]
    \o <<From(Join(Front(dec)), Last(dec))>>

\* the groups of statements that can follow the imports and the definition
\* of f (decorated with the full attribute chain), in source order
Pool(dec) ==
    << <<Def("ClassDef", "g", <<Last(dec)>>, "", "", <<>>)>>,
       <<Def("FunctionDef", "f2", dec, "", "", <<"f">>)>>,
       <<Def("FunctionDef", "h", <<>>, "", "", <<"f">>)>>,
       <<Def("ClassDef", "o", <<>>, "AsyncFunctionDef", "inner", <<"f">>)>>,
       <<Def("FunctionDef", "od", dec, "FunctionDef", "inner2", <<"f">>)>>,
       <<Expr(<<"f">>)>>,
       <<From(<<"lib">>, "x"),
         Def("FunctionDef", "w", <<>>, "", "", <<"x">>),
         Expr(<<"x">>)>>,
       <<Imp(<<"lib2">>), Expr(<<"lib2", "y">>)>> >>

RECURSIVE Pick(_, _, _)
\* the statements of the groups of `seq` whose index is in `chosen`, in order
Pick(seq, chosen, i) ==
    IF i > Len(seq) THEN <<>>
    ELSE (IF i \in chosen THEN seq[i] ELSE <<>>) \o Pick(seq, chosen, i + 1)

\* no local name is bound twice at module level
UniqueBindings(b) ==
    \A i, j \in DOMAIN b :
        (i # j /\ BoundName(b[i]) # "") => BoundName(b[i]) # BoundName(b[j])

UnitModules(dec) ==
    {b \in {Pick([k \in 1..Len(DecoratorImports(dec)) |-> <<DecoratorImports(dec)[k]>>],
                 imports, 1)
            \o <<Def("FunctionDef", "f", dec, "", "", <<>>)>>
            \o Pick(Pool(dec), groups, 1) :
              <<imports, groups>> \in
                  {i \in SUBSET (1..Len(DecoratorImports(dec))) :
                       Cardinality(i) \in 1..2}
                  \X {g \in SUBSET (1..Len(Pool(dec))) : Cardinality(g) <= MaxStmts}} :
       UniqueBindings(b)}

\* the modules of this family that resolve to a file
UnitResolvable == {<<"lib">>, <<"lib2">>}

\* what load_deprecated_from_module may return for them
UnitLoaded == {{}, {"x", "y"}}

ScanIdle ==
    /\ files = <<>>
    /\ top = ""
    /\ recursive = FALSE
    /\ run = 0
    /\ pc = "off"
    /\ stack = <<>>
    /\ visited = {}
    /\ cache = <<>>
    /\ warnings = <<>>
    /\ calls = <<>>
    /\ results = <<>>

UnitInit ==
    /\ decorator \in DecoratorPaths
    /\ ubody \in UnitModules(decorator)
    /\ upc = "parsed"
    /\ uloaded = {}
    /\ udeprecated = {}
    /\ uusers = {}
    /\ ScanIdle

\* visit_Module, first half: self.deprecated = self.collect_deprecated(...)
UnitCollect ==
    /\ upc = "parsed"
    /\ udeprecated' = collect_deprecated(ubody, decorator)
    /\ upc' = "collected"
    /\ UNCHANGED <<decorator, ubody, uloaded, uusers, scanVars>>

\* the marks of every import statement of the module
ImportMarks(b, loaded) ==
    UNION {IF StmtModule(b, i) \notin UnitResolvable THEN {}
           ELSE IF b[i].kind = "import" THEN visit_Import_marks(b, i, loaded)
           ELSE visit_ImportFrom_marks(b, i, loaded) :
           i \in {j \in DOMAIN b : b[j].kind \in {"import", "from"}}}

\* visit_Module, second half: generic_visit runs visit_Import and
\* visit_ImportFrom on every import statement
UnitVisit ==
    /\ upc = "collected"
    /\ \E loaded \in UnitLoaded :
          /\ uloaded' = loaded
          /\ udeprecated' = udeprecated \cup ImportMarks(ubody, loaded)
    /\ upc' = "visited"
    /\ UNCHANGED <<decorator, ubody, uusers, scanVars>>

UnitGetUsers ==
    /\ upc = "visited"
    /\ uusers' = get_deprecated_users(ubody, udeprecated)
    /\ upc' = "users"
    /\ UNCHANGED <<decorator, ubody, uloaded, udeprecated, scanVars>>

UnitNext == UnitCollect \/ UnitVisit \/ UnitGetUsers

SpecUnit == UnitInit /\ [][UnitNext]_vars

-----------------------------------------------------------------------------
(* Scans: the files *)

ScanDecorator == <<"d", "dep">>

OkFile(b) == [state |-> "ok", body |-> b]
\* a file whose bytes do not decode: fd.read() raises UnicodeDecodeError
UndecodableFile == [state |-> "undecodable", body |-> <<>>]
\* a file that decodes and is not Python: ast.parse raises SyntaxError
MalformedFile == [state |-> "malformed", body |-> <<>>]

Fn(dk, f, deco, use) == Def(dk, f, deco, "", "", use)

\* the files a scan can meet, by label
FileTable(label) ==
    CASE label = "t" ->
            \* import a / from b import h / a.f() / h()
            OkFile(<<Imp(<<"a">>), From(<<"b">>, "h"),
                     Expr(<<"a", "f">>), Expr(<<"h">>)>>)
      [] label = "a_plain" ->
            \* import d / @d.dep def f / def g: f()
            OkFile(<<Imp(<<"d">>), Fn("FunctionDef", "f", ScanDecorator, <<>>),
                     Fn("FunctionDef", "g", <<>>, <<"f">>)>>)
      [] label = "a_imports_b" ->
            \* import d / import b / @d.dep def f / def g: f()
            OkFile(<<Imp(<<"d">>), Imp(<<"b">>),
                     Fn("FunctionDef", "f", ScanDecorator, <<>>),
                     Fn("FunctionDef", "g", <<>>, <<"f">>)>>)
      [] label = "a_imports_t" ->
            \* import d / import t / @d.dep def f
            OkFile(<<Imp(<<"d">>), Imp(<<"t">>),
                     Fn("FunctionDef", "f", ScanDecorator, <<>>)>>)
      [] label = "a_imports_b_calls_f" ->
            \* import d / import b / @d.dep def f / f()
            OkFile(<<Imp(<<"d">>), Imp(<<"b">>),
                     Fn("FunctionDef", "f", ScanDecorator, <<>>), Expr(<<"f">>)>>)
      [] label = "b_from_a" ->
            \* from a import f / def h: f()
            OkFile(<<From(<<"a">>, "f"), Fn("FunctionDef", "h", <<>>, <<"f">>)>>)
      [] label = "b_import_a" ->
            \* import a / class h: a.f()
            OkFile(<<Imp(<<"a">>), Fn("ClassDef", "h", <<>>, <<"a", "f">>)>>)
      [] label = "b_from_a_calls_f" ->
            \* from a import f / f()
            OkFile(<<From(<<"a">>, "f"), Expr(<<"f">>)>>)
      [] label = "b_decorated" ->
            \* import d / from a import f / @d.dep def h
            OkFile(<<Imp(<<"d">>), From(<<"a">>, "f"),
                     Fn("FunctionDef", "h", ScanDecorator, <<>>)>>)
      [] label = "b_undecodable" -> UndecodableFile
      [] label = "b_malformed" -> MalformedFile

ALabels == {"a_plain", "a_imports_b", "a_imports_t", "a_imports_b_calls_f"}
BLabels == {"b_from_a", "b_import_a", "b_from_a_calls_f", "b_decorated",
            "b_undecodable", "b_malformed"}

Paths == {"t.py", "a.py", "b.py"}
Tops == {"t.py", "a.py"}

\* the directory scanned: which file each path holds
FileSystems ==
    {[p \in Paths |-> CASE p = "t.py" -> "t" [] p = "a.py" -> la [] OTHER -> lb] :
        <<la, lb>> \in ALabels \X BLabels}

None == "None"

\* memestra.utils.resolve_module: the path of the module's file, or None
resolve_module(fs, name) ==
    CASE name = <<"t">> /\ "t.py" \in DOMAIN fs -> "t.py"
      [] name = <<"a">> /\ "a.py" \in DOMAIN fs -> "a.py"
      [] name = <<"b">> /\ "b.py" \in DOMAIN fs -> "b.py"
      [] OTHER -> None

-----------------------------------------------------------------------------
(* Scans: the cache *)

\* memestra.caching.Format.version
FormatVersion == 1

NoEntry == [version |-> FormatVersion, generator |-> "none", deprecated |-> <<>>]

\* CacheKeyFactory / RecursiveCacheKeyFactory: one key per file and variant
key_factory(rec, path) == <<IF rec THEN "recursive" ELSE "direct", path>>

Keys == {key_factory(r, p) : r \in BOOLEAN, p \in Paths}

\* Cache.__contains__
CacheHas(c, key) == c[key] # NoEntry

\* Cache.__setitem__: the entry is stored with the current format version
CachePut(c, key, data) ==
    [c EXCEPT ![key] = [version |-> FormatVersion,
                        generator |-> data.generator,
                        deprecated |-> data.deprecated]]

PresetEntries ==
    { [version |-> FormatVersion - 1, generator |-> "memestra",
       deprecated |-> <<"stale">>],
      [version |-> FormatVersion - 1, generator |-> "manual",
       deprecated |-> <<"f">>],
      [version |-> FormatVersion, generator |-> "manual",
       deprecated |-> <<"f", "f">>] }

PresetKeys == {key_factory(r, p) : r \in BOOLEAN, p \in {"a.py", "b.py"}}

\* the cache directory before the first scan
PresetCaches ==
    {[k \in Keys |-> IF k \in DOMAIN f THEN f[k] ELSE NoEntry] :
        f \in UNION {[S -> PresetEntries] :
                        S \in {T \in SUBSET PresetKeys : Cardinality(T) <= MaxPreset}}}

\* what a scan finds under a key
Found(entry) ==
    IF entry = NoEntry THEN "absent"
    ELSE IF entry.version = FormatVersion THEN "fresh"
    ELSE IF entry.generator = "manual" THEN "stale_manual"
    ELSE "stale_memestra"

NameRank(x) ==
    CASE x = "f" -> 1 [] x = "g" -> 2 [] x = "h" -> 3

RECURSIVE Sorted(_)
\* sorted(dl)
Sorted(S) ==
    IF S = {} THEN <<>>
    ELSE LET m == CHOOSE x \in S : \A y \in S : NameRank(x) <= NameRank(y)
         IN <<m>> \o Sorted(S \ {m})

-----------------------------------------------------------------------------
(* Scans: load_deprecated_from_module *)

CacheDecisionAnyVersion(c, key) ==
    IF CacheHas(c, key) THEN "hit" ELSE "read"

CacheDecisionNoManual(c, key) ==
    IF CacheHas(c, key) /\ c[key].version = FormatVersion THEN "hit" ELSE "read"

\* lines 59-69: what the cache lookup decides
CacheDecision(c, key) ==
    IF CacheHas(c, key)
    THEN IF c[key].version = FormatVersion THEN "hit"
         ELSE IF c[key].generator = "manual" THEN "manual"
         ELSE "read"
    ELSE "read"

\* line 82: whether the module is handed to a child resolver
Descends(rec, path, vis) == rec /\ path \notin vis

MergedDeprecatedImportsOnly(b, dec, deprecated_imports) == deprecated_imports

\* lines 93-94: the module's own decorated definitions and the contexts
\* found by the child resolver
MergedDeprecated(b, dec, deprecated_imports) ==
    collect_deprecated(b, dec) \cup deprecated_imports

NamesOf(b, nodes) == {Ident(b, d) : d \in nodes}

\* lines 89-90: the contexts of the child resolver's triples
DeprecatedImports(b, childDeprecated) ==
    {t[3] : t \in get_deprecated_users(b, childDeprecated)}

\* lines 97-98
EntryData(dl) == [generator |-> "memestra", deprecated |-> Sorted(dl)]

Ret(tag, names) == [tag |-> tag, names |-> names]

NoLoad == [name |-> <<>>, path |-> "", key |-> <<"", "">>, found |-> "",
           backedge |-> FALSE]

TopFrame == stack[Len(stack)]
File(path) == FileTable(files[path])
Body(path) == File(path).body

\* resolver.visit(module) up to the first statement: visit_Module, line 154
Frame(dec, path) ==
    [path |-> path, idx |-> 1,
     deprecated |-> collect_deprecated(Body(path), dec),
     load |-> NoLoad]

\* the module is being visited by a child resolver
InProgress(path) == \E i \in 2..Len(stack) : stack[i].path = path

CallRecord(ld, outcome, ret, read, wrote, descended, after) ==
    [name |-> ld.name, path |-> ld.path, key |-> ld.key, found |-> ld.found,
     backedge |-> ld.backedge, outcome |-> outcome, ret |-> ret,
     read |-> read, wrote |-> wrote, descended |-> descended, after |-> after]

\* the tail of visit_Import / visit_ImportFrom in the resolver frame f
AfterLoad(f, ret) ==
    LET b == Body(f.path)
        marks == IF ret.tag = "None" THEN {}
                 ELSE IF b[f.idx].kind = "import"
                      THEN visit_Import_marks(b, f.idx, ret.names)
                      ELSE visit_ImportFrom_marks(b, f.idx, ret.names)
    IN [f EXCEPT !.deprecated = @ \cup marks, !.idx = @ + 1, !.load = NoLoad]

\* the call returns `ret` to the frame at depth n, which becomes the top
Return(n, rec, ret) ==
    /\ stack' = [i \in 1..n |-> IF i = n THEN AfterLoad(stack[n], ret) ELSE stack[i]]
    /\ calls' = Append(calls, rec)
    /\ pc' = "running"
    /\ UNCHANGED results

\* an exception leaves every frame: the scan ends with an error
Raise(rec, what) ==
    /\ stack' = <<>>
    /\ calls' = Append(calls, rec)
    /\ pc' = "error"
    /\ results' = Append(results, [status |-> what, recursive |-> recursive,
                                   output |-> {}])

-----------------------------------------------------------------------------
(* Scans: the actions *)

ScanInit ==
    /\ decorator = ScanDecorator
    /\ files \in FileSystems
    /\ top \in Tops
    /\ cache \in PresetCaches
    /\ recursive = FALSE
    /\ run = 0
    /\ pc = "idle"
    /\ stack = <<>>
    /\ visited = {}
    /\ warnings = <<>>
    /\ calls = <<>>
    /\ results = <<>>
    /\ upc = "off"
    /\ ubody = <<>>
    /\ uloaded = {}
    /\ udeprecated = {}
    /\ uusers = {}

\* memestra(): parse the file, create the resolver, resolver.visit(module)
\* up to the first statement (visit_Module: collect_deprecated)
StartScan(r) ==
    /\ pc \in {"idle", "done", "error"}
    /\ run < MaxRuns
    /\ run' = run + 1
    /\ recursive' = r
    /\ visited' = {}
    /\ warnings' = <<>>
    /\ calls' = <<>>
    /\ stack' = <<Frame(decorator, top)>>
    /\ pc' = "running"
    /\ UNCHANGED <<decorator, unitVars, files, top, cache, results>>

Visiting ==
    /\ pc = "running"
    /\ TopFrame.load = NoLoad
    /\ TopFrame.idx <= Len(Body(TopFrame.path))

\* generic_visit on a statement that is no import
GenericVisit ==
    /\ Visiting
    /\ Body(TopFrame.path)[TopFrame.idx].kind \notin {"import", "from"}
    /\ stack' = [stack EXCEPT ![Len(stack)].idx = @ + 1]
    /\ UNCHANGED <<decorator, unitVars, files, top, recursive, run, pc, visited,
                   cache, warnings, calls, results>>

\* load_deprecated_from_module, lines 52-69, called on the module `name`
LoadLookup(name) ==
    LET n == Len(stack)
        path == resolve_module(files, name)
        key == key_factory(recursive, path)
        ld == [name |-> name, path |-> path,
               key |-> IF path = None THEN <<"", "">> ELSE key,
               found |-> IF path = None THEN "" ELSE Found(cache[key]),
               backedge |-> path \in visited /\ InProgress(path)]
    IN IF path = None
       THEN /\ Return(n, CallRecord(ld, "None", Ret("None", {}),
                                    FALSE, FALSE, FALSE, NoEntry), Ret("None", {}))
            /\ UNCHANGED <<warnings>>
       ELSE IF CacheDecision(cache, key) = "hit"
       THEN /\ Return(n, CallRecord(ld, "hit", Ret("set", Range(cache[key].deprecated)),
                                    FALSE, FALSE, FALSE, cache[key]),
                      Ret("set", Range(cache[key].deprecated)))
            /\ UNCHANGED <<warnings>>
       ELSE IF CacheDecision(cache, key) = "manual"
       THEN /\ warnings' = Append(warnings, <<name, key>>)
            /\ Return(n, CallRecord(ld, "manual", Ret("list", {}),
                                    FALSE, FALSE, FALSE, cache[key]), Ret("list", {}))
       ELSE /\ stack' = [stack EXCEPT ![n].load = ld]
            /\ UNCHANGED <<warnings, calls, pc, results>>

\* visit_Import up to the return of load_deprecated_from_module
VisitImport ==
    /\ Visiting
    /\ Body(TopFrame.path)[TopFrame.idx].kind = "import"
    /\ LoadLookup(StmtModule(Body(TopFrame.path), TopFrame.idx))
    /\ UNCHANGED <<decorator, unitVars, files, top, recursive, run, visited, cache>>

\* visit_ImportFrom up to the return of load_deprecated_from_module
VisitImportFrom ==
    /\ Visiting
    /\ Body(TopFrame.path)[TopFrame.idx].kind = "from"
    /\ LoadLookup(StmtModule(Body(TopFrame.path), TopFrame.idx))
    /\ UNCHANGED <<decorator, unitVars, files, top, recursive, run, visited, cache>>

\* lines 93-100 for the module of the pending load ld, then the return
Compute(n, ld, deprecated_imports, descended) ==
    LET b == Body(ld.path)
        deprecated == MergedDeprecated(b, decorator, deprecated_imports)
    IN IF \E d \in deprecated : ~IsDef(b, d)
       THEN \* d.name on a node that is no definition
            /\ Raise(CallRecord(ld, "AttributeError", Ret("None", {}),
                                TRUE, FALSE, descended, cache[ld.key]),
                     "AttributeError")
            /\ UNCHANGED cache
       ELSE LET dl == NamesOf(b, deprecated) IN
            /\ cache' = CachePut(cache, ld.key, EntryData(dl))
            /\ Return(n, CallRecord(ld, "computed", Ret("set", dl),
                                    TRUE, TRUE, descended,
                                    CachePut(cache, ld.key, EntryData(dl))[ld.key]),
                      Ret("set", dl))

\* lines 71-92: open and parse the module; descend into it or not
LoadRead ==
    /\ pc = "running"
    /\ TopFrame.load # NoLoad
    /\ LET n == Len(stack)
           ld == TopFrame.load
       IN CASE File(ld.path).state = "malformed" ->
                 /\ Raise(CallRecord(ld, "SyntaxError", Ret("None", {}),
                                     TRUE, FALSE, FALSE, cache[ld.key]),
                          "SyntaxError")
                 /\ UNCHANGED <<visited, cache>>
            [] File(ld.path).state = "undecodable" ->
                 /\ Return(n, CallRecord(ld, "undecodable", Ret("list", {}),
                                         TRUE, FALSE, FALSE, cache[ld.key]),
                           Ret("list", {}))
                 /\ UNCHANGED <<visited, cache>>
            [] OTHER ->
                 IF Descends(recursive, ld.path, visited)
                 THEN /\ visited' = visited \cup {ld.path}
                      /\ stack' = Append(stack, Frame(decorator, ld.path))
                      /\ UNCHANGED <<cache, calls, pc, results>>
                 ELSE /\ Compute(n, ld, {}, FALSE)
                      /\ UNCHANGED visited
    /\ UNCHANGED <<decorator, unitVars, files, top, recursive, run, warnings>>

\* the child resolver has visited the module: lines 89-100
LoadFinish ==
    /\ pc = "running"
    /\ Len(stack) >= 2
    /\ TopFrame.load = NoLoad
    /\ TopFrame.idx > Len(Body(TopFrame.path))
    /\ LET n == Len(stack) - 1
           ld == stack[n].load
       IN Compute(n, ld, DeprecatedImports(Body(ld.path), TopFrame.deprecated), TRUE)
    /\ UNCHANGED <<decorator, unitVars, files, top, recursive, run, visited, warnings>>

\* memestra(), lines 238-250: the users of the deprecated nodes of the file
Output(b, deprecated) ==
    {<<prettyname(b, t[1]), t[2]>> : t \in get_deprecated_users(b, deprecated)}

Finish ==
    /\ pc = "running"
    /\ Len(stack) = 1
    /\ TopFrame.load = NoLoad
    /\ TopFrame.idx > Len(Body(TopFrame.path))
    /\ results' = Append(results,
                         [status |-> "done", recursive |-> recursive,
                          output |-> Output(Body(top), TopFrame.deprecated)])
    /\ stack' = <<>>
    /\ pc' = "done"
    /\ UNCHANGED <<decorator, unitVars, files, top, recursive, run, visited,
                   cache, warnings, calls>>

Init == ScanInit

Next ==
    \/ \E r \in BOOLEAN : StartScan(r)
    \/ GenericVisit
    \/ VisitImport
    \/ VisitImportFrom
    \/ LoadRead
    \/ LoadFinish
    \/ Finish

Spec == Init /\ [][Next]_vars

-----------------------------------------------------------------------------
(* Properties of one resolver on one module *)

\* statement j is a definition decorated with the attribute chain `dec`
DecoratedWith(b, j, chain) == b[j].kind = "def" /\ b[j].deco = chain

\* C5: after collect_deprecated, every definition decorated with the full
\* attribute chain @p1.....pn, in a module that holds `import p1.....pk` for
\* a proper prefix (1 <= k < n), is in the returned set.
C5_PrefixMode ==
    upc = "collected" =>
        \A i, j \in DOMAIN ubody :
            (/\ ubody[i].kind = "import"
             /\ \E k \in 1..(Len(decorator) - 1) :
                    ubody[i].mod = Join(SubSeq(decorator, 1, k))
             /\ DecoratedWith(ubody, j, decorator))
            => <<j, "stmt", 0>> \in udeprecated

\* the k = 1 case of C5 alone: `import p1` with @p1.....pn
C5_PrefixModeSingle ==
    upc = "collected" =>
        \A i, j \in DOMAIN ubody :
            (/\ ubody[i].kind = "import"
             /\ ubody[i].mod = <<decorator[1]>>
             /\ DecoratedWith(ubody, j, decorator))
            => <<j, "stmt", 0>> \in udeprecated

\* C6: after collect_deprecated, every definition directly decorated with
\* @pn, in a module that holds `from p1.....p(n-1) import pn`, is in the
\* returned set, whatever the segment names are.
C6_FinalSegmentMode ==
    upc = "collected" =>
        \A i, j \in DOMAIN ubody :
            (/\ ubody[i].kind = "from"
             /\ ubody[i].mod = Join(Front(decorator))
             /\ ubody[i].name = Last(decorator)
             /\ DecoratedWith(ubody, j, <<Last(decorator)>>))
            => <<j, "stmt", 0>> \in udeprecated

\* C6 restricted to paths whose first and last segments differ
C6_FinalSegmentDistinct ==
    (upc = "collected" /\ decorator[1] # Last(decorator)) =>
        \A i, j \in DOMAIN ubody :
            (/\ ubody[i].kind = "from"
             /\ ubody[i].mod = Join(Front(decorator))
             /\ ubody[i].name = Last(decorator)
             /\ DecoratedWith(ubody, j, <<Last(decorator)>>))
            => <<j, "stmt", 0>> \in udeprecated

RECURSIVE Encloses(_, _, _)
\* a is a proper ancestor of n
Encloses(b, a, n) ==
    n # Root /\ (Parent(b, n) = a \/ Encloses(b, a, Parent(b, n)))

EnclosingDefs(b, n) == {a \in Nodes(b) : IsDef(b, a) /\ Encloses(b, a, n)}

\* the context a reader must be reported with
ExpectedContext(b, n) ==
    IF EnclosingDefs(b, n) = {} THEN n
    ELSE CHOOSE e \in EnclosingDefs(b, n) :
            \A a \in EnclosingDefs(b, n) \ {e} : Encloses(b, a, e)

Readers(b, deprecated) ==
    {p \in deprecated \X Nodes(b) : p[2] \in Users(b, p[1])}

\* C7: no triple returned by get_deprecated_users has a use with a deprecated
\* enclosing definition; every reader of a deprecated node with no deprecated
\* enclosing definition is returned, with its innermost enclosing definition
\* as context, or the use itself when no definition encloses it.
C7_NoSelfFlagging ==
    upc = "users" =>
        /\ \A t \in uusers :
              /\ <<t[1], t[2]>> \in Readers(ubody, udeprecated)
              /\ EnclosingDefs(ubody, t[2]) \cap udeprecated = {}
              /\ t[3] = ExpectedContext(ubody, t[2])
        /\ \A p \in Readers(ubody, udeprecated) :
              EnclosingDefs(ubody, p[2]) \cap udeprecated = {}
              => <<p[1], p[2], ExpectedContext(ubody, p[2])>> \in uusers

\* a module where the cases of C7 happen together: a reader nested two
\* definitions deep, a reader at module level, a reader inside a deprecated
\* definition, and a deprecated Name marked by visit_ImportFrom
C7_Witness ==
    /\ upc = "users"
    /\ \E t \in uusers : t[3][2] = "inner" /\ Len(DefAncestors(ubody, t[2])) = 2
    /\ \E t \in uusers : t[3] = t[2]
    /\ \E t \in uusers : NodeKind(ubody, t[1]) = "Name"
    /\ \E p \in Readers(ubody, udeprecated) :
          EnclosingDefs(ubody, p[2]) \cap udeprecated # {}

-----------------------------------------------------------------------------
(* Properties of scans *)

Errors == {"SyntaxError", "AttributeError"}

Completed == Range(calls)

\* how often load_deprecated_from_module has handed `path` to a child resolver
Descents(path) ==
    Cardinality({i \in DOMAIN calls : calls[i].path = path /\ calls[i].descended})
    + Cardinality({i \in 2..Len(stack) : stack[i].path = path})

\* no file is descended into twice in a scan, a file is in the visited set
\* before its child resolver runs, and a scan that has not ended has a
\* resolver to step
C1_DescendsOnce ==
    /\ \A p \in Paths : Descents(p) <= 1
    /\ \A i \in 2..Len(stack) : stack[i].path \in visited
    /\ pc = "running" => stack # <<>>

AllParse == \A p \in Paths : File(p).state = "ok"

\* C1: a recursive scan of any import graph of parseable modules, cyclic or
\* not, through the scanned file or not, descends into each file at most once
\* and ends with a result, not with an error.
C1_RecursiveScanEnds ==
    (recursive /\ AllParse) => (C1_DescendsOnce /\ pc # "error")

FreshEntry(names) ==
    [version |-> FormatVersion, generator |-> "memestra", deprecated |-> Sorted(names)]

StaleManual(entry) == entry.generator = "manual" /\ entry.version # FormatVersion

\* the calls that found a manual entry of another version
C3_ManualCalls ==
    \A c \in Completed :
        c.found = "stale_manual" =>
            /\ c.outcome = "manual"
            /\ c.ret = Ret("list", {})
            /\ <<c.name, c.key>> \in Range(warnings)
            /\ ~c.read /\ ~c.wrote

\* C3: a call that finds a manual entry of another version warns and returns
\* an empty collection (not None), and no step of any scan, in either mode,
\* changes the entry under that key.
C3_ManualKept ==
    [][ /\ \A k \in Keys : StaleManual(cache[k]) => cache'[k] = cache[k]
        /\ C3_ManualCalls' ]_vars

C3_Witness ==
    /\ run = MaxRuns
    /\ pc = "done"
    /\ \E c \in Completed : c.found = "stale_manual" /\ StaleManual(cache[c.key])
    /\ \E k \in Keys : Found(cache[k]) = "fresh"

\* C4: a call on an imported module whose source is malformed or does not
\* decode returns an empty collection and raises nothing.
C4_BadSourceIsEmpty ==
    \A c \in Completed :
        (c.read /\ File(c.path).state # "ok") =>
            c.outcome \notin Errors /\ c.ret = Ret("list", {})

\* the undecodable half of C4 alone
C4_UndecodableIsEmpty ==
    \A c \in Completed :
        (c.read /\ File(c.path).state = "undecodable") =>
            c.outcome \notin Errors /\ c.ret = Ret("list", {})

SameMode == results[1].recursive = results[2].recursive

\* C8, first half: two scans in a row of the same file in the same mode
\* return identical lists.
C8_IdenticalOutputs ==
    (Len(results) = 2 /\ SameMode /\ results[2].status = "done") =>
        /\ results[1].status = "done"
        /\ results[1].output = results[2].output

\* C8, second half: in the second scan every call on a resolvable module
\* returns from the cache: nothing is read, nothing is written.
C8_SecondRunFromCache ==
    (run = 2 /\ Len(results) >= 1 /\ results[1].recursive = recursive) =>
        \A c \in Completed :
            c.path # None => (~c.read /\ ~c.wrote /\ c.outcome \in {"hit", "manual"})

\* two scans that both return, return the same
C8_SameWhenBothReturn ==
    (Len(results) = 2 /\ SameMode
        /\ results[1].status = "done" /\ results[2].status = "done") =>
        results[1].output = results[2].output

LocalNames(path) == NamesOf(Body(path), collect_deprecated(Body(path), decorator))

\* C9 as stated: a call on a file that is in the visited set and still being
\* visited yields an empty set and raises nothing.
C9_BackEdgeEmpty ==
    \A c \in Completed :
        c.backedge => (c.outcome \notin Errors /\ c.ret.names = {})

\* C9 amended: such a call does not descend and raises nothing; it yields the
\* names of the module's own decorated definitions (empty only when it has
\* none), with nothing added from the module's imports.
C9_BackEdgeLocalOnly ==
    \A c \in Completed :
        c.backedge =>
            /\ ~c.descended
            /\ c.outcome \in {"computed", "hit"}
            /\ c.ret = Ret("set", LocalNames(c.path))

C9_Witness ==
    \E c \in Completed : c.backedge /\ c.ret.names # {} /\ c.outcome = "computed"

\* C10: in recursive mode a call on a resolvable module that parses returns
\* a set of names and raises nothing.
C10_LoadReturnsNames ==
    recursive =>
        \A c \in Completed :
            (c.path # None /\ File(c.path).state = "ok") =>
                c.outcome \in {"hit", "manual", "computed"}

====
